---- MODULE Spec2Model ----
(***************************************************************************)
(* A model of pydantic_ai_rlm/logging.py: the RLMLogger class (its four    *)
(* log_* operations in the rich and the plain rendering mode) and the      *)
(* module-level singleton accessors get_logger / configure_logging.        *)
(*                                                                         *)
(* Strings are sequences of one-character strings.  What is written to the *)
(* terminal is a sequence of items: one item per print() call in the plain *)
(* mode, one item per console.print() call (a panel or a table) in the     *)
(* rich mode.  Fixed texts of the layout (titles, labels, banners) are     *)
(* tagged items; texts computed from the arguments are character           *)
(* sequences.                                                              *)
(***************************************************************************)
EXTENDS Integers, Sequences, FiniteSets

VARIABLES
    RICH_AVAILABLE, \* module constant set at import time (lines 9-17)
    instances,      \* every RLMLogger constructed so far (each one is returned to
                    \* its caller, who may keep the handle): id -> its fields
    logger,         \* the module global _logger: None or an instance id
    terminal,       \* everything written to the terminal so far
    last,           \* the call made last: operation, receiver, argument, outcome
    pc,             \* per thread: position inside get_logger / configure_logging
    ret,            \* per thread: the value its last call returned
    tmp,            \* per thread: the instance it constructed and has yet to store
    configured      \* whether some thread has entered configure_logging

vars == <<RICH_AVAILABLE, instances, logger, terminal, last, pc, ret, tmp, configured>>

\* the value None of the global _logger and of a call without a result; instances
\* are numbered from 1
None == 0

\* self.console = None
NoConsole == "None"

-----------------------------------------------------------------------------
(* Bounds of the model.                                                     *)

\* instances constructed in one behaviour
MaxInstances == 3
\* items on the terminal before the caller stops logging
MaxTerminal == 1
\* threads calling the accessors concurrently
NumThreads == 2
\* how far beyond a truncation limit the lengths of the inputs go
MaxOver == 1
\* whitespace characters put around a stream's text
MaxPad == 1
\* user variables beyond the table cap
MaxExtraVars == 2

-----------------------------------------------------------------------------
(* Program constants.                                                       *)

PromptLimit == 500
StdoutLimit == 2000
StderrLimit == 1000
VarValueLimit == 60
VarValueKeep == 57
MaxVarRows == 10

Ellipsis == <<".", ".", ".">>

\* "\n... (truncated)"
TruncatedMarker ==
    <<"\n", ".", ".", ".", " ", "(", "t", "r", "u", "n", "c", "a", "t", "e", "d", ")">>

\* "<unable to repr>"
UnableToRepr ==
    <<"<", "u", "n", "a", "b", "l", "e", " ", "t", "o", " ", "r", "e", "p", "r", ">">>

\* the characters str.strip() removes (the ASCII ones the model's inputs use)
Whitespace == {" ", "\t", "\n", "\r", "\f"}

-----------------------------------------------------------------------------
(* Python string operations.                                                *)

\* s[:n]
Prefix(s, n) == SubSeq(s, 1, IF n < Len(s) THEN n ELSE Len(s))

RECURSIVE lstrip(_)
lstrip(s) ==
    IF s = <<>> \/ s[1] \notin Whitespace THEN s ELSE lstrip(Tail(s))

RECURSIVE rstrip(_)
rstrip(s) ==
    IF s = <<>> \/ s[Len(s)] \notin Whitespace THEN s
    ELSE rstrip(SubSeq(s, 1, Len(s) - 1))

\* str.strip()
strip(s) == rstrip(lstrip(s))

\* k.startswith("_")
startswith_underscore(k) == Len(k) > 0 /\ k[1] = "_"

-----------------------------------------------------------------------------
(* RLMLogger.__init__ and the instance store.                               *)

\* the fields __init__ sets: enabled, and console (a Console or None)
RLMLogger(enabled) ==
    [enabled |-> enabled,
     console |-> IF RICH_AVAILABLE THEN "Console" ELSE NoConsole]

NewId == Cardinality(DOMAIN instances) + 1

Construct(enabled) ==
    [i \in (DOMAIN instances) \cup {NewId} |->
        IF i = NewId THEN RLMLogger(enabled) ELSE instances[i]]

\* the test `RICH_AVAILABLE and self.console` of every log_* method
UsesRich(self) == RICH_AVAILABLE /\ instances[self].console # NoConsole

ThreadVarsUnchanged == UNCHANGED <<pc, ret, tmp, configured>>

-----------------------------------------------------------------------------
(* What gets written.  The plain mode writes one item per print() call, the *)
(* rich mode one item per console.print() call.                             *)

\* print("=" * 50), and print(f"\n{'=' * 50}") with a leading newline
Banner(leading_newline) ==
    [kind |-> "banner", char |-> "=", width |-> 50, leading_newline |-> leading_newline]

\* a fixed text of the layout: a title line or a section label
Label(label) == [kind |-> "label", label |-> label]

\* a text computed from the arguments
TextItem(s) == [kind |-> "text", text |-> s]

\* Text("\n") inside a panel
NL == [kind |-> "newline"]

\* Syntax(code, "python", theme="monokai", line_numbers=True)
Syntax(code) == [kind |-> "syntax", text |-> code, lexer |-> "python", line_numbers |-> TRUE]

\* Panel(content, title=..., border_style=..., padding=(0, 1))
Panel(title, border_style, content) ==
    [kind |-> "panel", title |-> title, border_style |-> border_style, content |-> content]

\* f"Executed in {result.execution_time:.3f}s": the time is carried in milliseconds
Executed(result) == [kind |-> "executed", ms |-> result.execution_time]

\* f"RESULT: {status} (executed in {result.execution_time:.3f}s)"
ResultHeader(status, result) ==
    [kind |-> "header", status |-> status, ms |-> result.execution_time]

\* one rendered variable: a table row, or the line "  name (type): value"
VarEntry(name, type, value_str) ==
    [kind |-> "var", name |-> name, type |-> type, value |-> value_str]

\* f"  ... and {len(user_vars) - 10} more variables"
MoreVariables(count) == [kind |-> "more", count |-> count]

\* Table(...) with the columns Name / Type / Value and one row per entry
Table(rows) == [kind |-> "table", columns |-> <<"Name", "Type", "Value">>, rows |-> rows]

-----------------------------------------------------------------------------
(* Truncation of the texts.  The code repeats each rule once per method and *)
(* per mode; so does the model.                                             *)

\* log_llm_query, rich: display_prompt = prompt[:500] + "..." if len(prompt) > 500
query_display_rich(prompt) ==
    IF Len(prompt) > PromptLimit THEN Prefix(prompt, PromptLimit) \o Ellipsis ELSE prompt

\* log_llm_query, plain
query_display_plain(prompt) ==
    IF Len(prompt) > PromptLimit THEN Prefix(prompt, PromptLimit) \o Ellipsis ELSE prompt

\* log_llm_response, rich
response_display_rich(response) ==
    IF Len(response) > PromptLimit THEN Prefix(response, PromptLimit) \o Ellipsis
    ELSE response

\* the cut taken at `>=` instead of `>`
response_display_plain_at_limit(response) ==
    IF Len(response) >= PromptLimit THEN Prefix(response, PromptLimit) \o Ellipsis
    ELSE response

\* log_llm_response, plain
response_display_plain(response) ==
    IF Len(response) > PromptLimit THEN Prefix(response, PromptLimit) \o Ellipsis
    ELSE response

\* _build_content_parts: stdout = result.stdout.strip(), cut at 2000
stdout_body_rich(result) ==
    LET stdout == strip(result.stdout)
    IN  IF Len(stdout) > StdoutLimit THEN Prefix(stdout, StdoutLimit) \o TruncatedMarker
        ELSE stdout

\* _build_content_parts: stderr = result.stderr.strip(), cut at 1000
stderr_body_rich(result) ==
    LET stderr == strip(result.stderr)
    IN  IF Len(stderr) > StderrLimit THEN Prefix(stderr, StderrLimit) \o TruncatedMarker
        ELSE stderr

\* the length test made on the raw text instead of the stripped text
stdout_body_plain_raw_length(result) ==
    LET stdout == strip(result.stdout)
    IN  IF Len(result.stdout) > StdoutLimit
        THEN Prefix(stdout, StdoutLimit) \o TruncatedMarker
        ELSE stdout

\* _log_result_plain: stdout
stdout_body_plain(result) ==
    LET stdout == strip(result.stdout)
    IN  IF Len(stdout) > StdoutLimit THEN Prefix(stdout, StdoutLimit) \o TruncatedMarker
        ELSE stdout

\* _log_result_plain: stderr
stderr_body_plain(result) ==
    LET stderr == strip(result.stderr)
    IN  IF Len(stderr) > StderrLimit THEN Prefix(stderr, StderrLimit) \o TruncatedMarker
        ELSE stderr

-----------------------------------------------------------------------------
(* Values of locals.  A value is known to the logger through repr(value)    *)
(* and type(value).__name__ only: it is modelled by its type name and by    *)
(* what repr(value) does, which is to return a string, to raise an          *)
(* exception derived from Exception, or to raise one that is derived from   *)
(* BaseException only (KeyboardInterrupt, SystemExit, ...).                 *)

ReprOk(type, text) == [type |-> type, repr |-> "returns", text |-> text]
ReprRaises(type, exc) == [type |-> type, repr |-> exc, text |-> <<>>]

\* whether `except Exception` catches what repr(value) raises
CaughtByExceptException(value) == value.repr = "Exception"

\* the cut keeping 60 characters before the "..." instead of 57
_format_var_value_keeps_limit(value) ==
    IF value.repr = "returns"
    THEN [raised |-> FALSE,
          text |-> IF Len(value.text) > VarValueLimit
                   THEN Prefix(value.text, VarValueLimit) \o Ellipsis
                   ELSE value.text]
    ELSE IF CaughtByExceptException(value)
    THEN [raised |-> FALSE, text |-> UnableToRepr]
    ELSE [raised |-> TRUE, text |-> <<>>]

\* RLMLogger._format_var_value: the string returned, or the exception let through
_format_var_value(value) ==
    IF value.repr = "returns"
    THEN [raised |-> FALSE,
          text |-> IF Len(value.text) > VarValueLimit
                   THEN Prefix(value.text, VarValueKeep) \o Ellipsis
                   ELSE value.text]
    ELSE IF CaughtByExceptException(value)
    THEN [raised |-> FALSE, text |-> UnableToRepr]
    ELSE [raised |-> TRUE, text |-> <<>>]

\* the same computation inlined in _log_result_plain
plain_value_str(value) ==
    IF value.repr = "returns"
    THEN [raised |-> FALSE,
          text |-> IF Len(value.text) > VarValueLimit
                   THEN Prefix(value.text, VarValueKeep) \o Ellipsis
                   ELSE value.text]
    ELSE IF CaughtByExceptException(value)
    THEN [raised |-> FALSE, text |-> UnableToRepr]
    ELSE [raised |-> TRUE, text |-> <<>>]

-----------------------------------------------------------------------------
(* Variable names and the selection of user variables.  locals is a dict:   *)
(* a sequence of (name, value) entries in insertion order, names distinct.  *)

N_context == <<"c", "o", "n", "t", "e", "x", "t">>
N_json == <<"j", "s", "o", "n">>
N_re == <<"r", "e">>
N_os == <<"o", "s">>
N_collections == <<"c", "o", "l", "l", "e", "c", "t", "i", "o", "n", "s">>
N_math == <<"m", "a", "t", "h">>

\* excluded = ("context", "json", "re", "os", "collections", "math")
excluded == {N_context, N_json, N_re, N_os, N_collections, N_math}

\* the tuple ("context", "json", "re", "os") of _log_result_plain
excluded_plain == {N_context, N_json, N_re, N_os}

IsUserVarRich(entry) ==
    ~startswith_underscore(entry.name) /\ entry.name \notin excluded

IsUserVarPlain(entry) ==
    ~startswith_underscore(entry.name) /\ entry.name \notin excluded_plain

\* RLMLogger._get_user_vars
_get_user_vars(locals_dict) == SelectSeq(locals_dict, IsUserVarRich)

\* the dict comprehension of _log_result_plain
plain_user_vars(locals_dict) == SelectSeq(locals_dict, IsUserVarPlain)

\* list(user_vars.items())[:10]
first_rows(user_vars) == Prefix(user_vars, MaxVarRows)

-----------------------------------------------------------------------------
(* log_result: what a call writes, and whether an exception leaves it.      *)

\* RLMLogger._get_status_style: (status text, border style)
_get_status_style(success) ==
    IF success THEN <<"SUCCESS", "green">> ELSE <<"ERROR", "red">>

\* RLMLogger._build_content_parts
_build_content_parts(result) ==
    <<Executed(result)>>
    \o (IF strip(result.stdout) # <<>>
        THEN <<NL, Label("Output:"), NL, TextItem(stdout_body_rich(result))>>
        ELSE <<>>)
    \o (IF strip(result.stderr) # <<>>
        THEN <<NL, Label("Errors:"), NL, TextItem(stderr_body_rich(result))>>
        ELSE <<>>)

\* the index of the first row whose value formatting lets an exception through
\* (formatted[i].raised), 0 when there is none
FirstRaising(formatted) ==
    LET bad == {i \in 1..Len(formatted) : formatted[i].raised}
    IN  IF bad = {} THEN 0 ELSE CHOOSE i \in bad : \A j \in bad : i <= j

\* RLMLogger._print_result_panel: the panel is printed first; the table is built
\* row by row and printed once every row is added
_print_result_panel(content_parts, status, border_style, user_vars) ==
    LET parts ==
            content_parts
            \o (IF user_vars # <<>>
                THEN <<NL, Label("Variables:"), NL>>
                     \o (IF Len(user_vars) > MaxVarRows
                         THEN <<MoreVariables(Len(user_vars) - MaxVarRows)>>
                         ELSE <<>>)
                ELSE <<>>)
        panel == Panel(<<"Result", status>>, border_style, parts)
        shown == first_rows(user_vars)
        formatted == [i \in 1..Len(shown) |-> _format_var_value(shown[i].value)]
        stop == FirstRaising(formatted)
        rows == [i \in 1..Len(shown) |->
                    VarEntry(shown[i].name, shown[i].value.type, formatted[i].text)]
    IN  IF user_vars = <<>> THEN [items |-> <<panel>>, raised |-> FALSE]
        ELSE IF stop # 0 THEN [items |-> <<panel>>, raised |-> TRUE]
        ELSE [items |-> <<panel, Table(rows)>>, raised |-> FALSE]

\* RLMLogger._log_result_rich
_log_result_rich(result) ==
    LET style == _get_status_style(result.success)
    IN  _print_result_panel(_build_content_parts(result), style[1], style[2],
                            _get_user_vars(result.locals))

\* RLMLogger._log_result_plain: one item per print() executed
_log_result_plain(result) ==
    LET status == IF result.success THEN "SUCCESS" ELSE "ERROR"
        head == <<Banner(TRUE), ResultHeader(status, result), Banner(FALSE)>>
        out == IF strip(result.stdout) # <<>>
               THEN <<Label("Output:"), TextItem(stdout_body_plain(result))>>
               ELSE <<>>
        err == IF strip(result.stderr) # <<>>
               THEN <<Label("Errors:"), TextItem(stderr_body_plain(result))>>
               ELSE <<>>
        user_vars == plain_user_vars(result.locals)
        shown == first_rows(user_vars)
        formatted == [i \in 1..Len(shown) |-> plain_value_str(shown[i].value)]
        stop == FirstRaising(formatted)
        printed == IF stop = 0 THEN Len(shown) ELSE stop - 1
        lines == [i \in 1..printed |->
                    VarEntry(shown[i].name, shown[i].value.type, formatted[i].text)]
        more == IF Len(user_vars) > MaxVarRows
                THEN <<MoreVariables(Len(user_vars) - MaxVarRows)>>
                ELSE <<>>
    IN  IF user_vars = <<>>
        THEN [items |-> head \o out \o err \o <<Banner(FALSE)>>, raised |-> FALSE]
        ELSE IF stop # 0
        THEN [items |-> head \o out \o err \o <<Label("Variables:")>> \o lines,
              raised |-> TRUE]
        ELSE [items |-> head \o out \o err \o <<Label("Variables:")>> \o lines
                        \o more \o <<Banner(FALSE)>>,
              raised |-> FALSE]

-----------------------------------------------------------------------------
(* The four log_* methods.  Each records the call in `last`.                *)

Call(op, self, arg, raised) ==
    [op |-> op, self |-> self, arg |-> arg, ret |-> None, raised |-> raised]

LogOps == {"log_code_execution", "log_result", "log_llm_query", "log_llm_response"}

\* RLMLogger.log_code_execution
log_code_execution(self, code) ==
    /\ terminal' =
          IF ~instances[self].enabled THEN terminal
          ELSE IF UsesRich(self)
          THEN terminal \o <<Panel("Code Execution", "cyan", <<Syntax(code)>>)>>
          ELSE terminal \o <<Banner(TRUE), Label("CODE EXECUTION"), Banner(FALSE),
                             TextItem(code), Banner(FALSE)>>
    /\ last' = Call("log_code_execution", self, code, FALSE)
    /\ UNCHANGED <<RICH_AVAILABLE, instances, logger>>
    /\ ThreadVarsUnchanged

\* what log_result writes and whether it raises
log_result_outcome(self, result) ==
    IF ~instances[self].enabled THEN [items |-> <<>>, raised |-> FALSE]
    ELSE IF UsesRich(self) THEN _log_result_rich(result)
    ELSE _log_result_plain(result)

\* RLMLogger.log_result
log_result(self, result) ==
    /\ terminal' = terminal \o log_result_outcome(self, result).items
    /\ last' = Call("log_result", self, result, log_result_outcome(self, result).raised)
    /\ UNCHANGED <<RICH_AVAILABLE, instances, logger>>
    /\ ThreadVarsUnchanged

\* log_llm_query without its `if not self.enabled: return`
log_llm_query_unguarded(self, prompt) ==
    /\ terminal' =
          IF UsesRich(self)
          THEN terminal
               \o <<Panel("LLM Query", "blue", <<TextItem(query_display_rich(prompt))>>)>>
          ELSE terminal \o <<Banner(TRUE), Label("LLM QUERY"), Banner(FALSE),
                             TextItem(query_display_plain(prompt)), Banner(FALSE)>>
    /\ last' = Call("log_llm_query", self, prompt, FALSE)
    /\ UNCHANGED <<RICH_AVAILABLE, instances, logger>>
    /\ ThreadVarsUnchanged

\* RLMLogger.log_llm_query
log_llm_query(self, prompt) ==
    /\ terminal' =
          IF ~instances[self].enabled THEN terminal
          ELSE IF UsesRich(self)
          THEN terminal
               \o <<Panel("LLM Query", "blue", <<TextItem(query_display_rich(prompt))>>)>>
          ELSE terminal \o <<Banner(TRUE), Label("LLM QUERY"), Banner(FALSE),
                             TextItem(query_display_plain(prompt)), Banner(FALSE)>>
    /\ last' = Call("log_llm_query", self, prompt, FALSE)
    /\ UNCHANGED <<RICH_AVAILABLE, instances, logger>>
    /\ ThreadVarsUnchanged

\* RLMLogger.log_llm_response
log_llm_response(self, response) ==
    /\ terminal' =
          IF ~instances[self].enabled THEN terminal
          ELSE IF UsesRich(self)
          THEN terminal
               \o <<Panel("LLM Response", "blue",
                          <<TextItem(response_display_rich(response))>>)>>
          ELSE terminal \o <<Banner(TRUE), Label("LLM RESPONSE"), Banner(FALSE),
                             TextItem(response_display_plain(response)), Banner(FALSE)>>
    /\ last' = Call("log_llm_response", self, response, FALSE)
    /\ UNCHANGED <<RICH_AVAILABLE, instances, logger>>
    /\ ThreadVarsUnchanged

-----------------------------------------------------------------------------
(* The singleton accessors, called from one thread.                         *)

\* get_logger without its `if _logger is None`
get_logger_always_new ==
    /\ Cardinality(DOMAIN instances) < MaxInstances
    /\ instances' = Construct(FALSE)
    /\ logger' = NewId
    /\ last' = [op |-> "get_logger", self |-> None, arg |-> None, ret |-> logger',
                raised |-> FALSE]
    /\ UNCHANGED <<RICH_AVAILABLE, terminal>>
    /\ ThreadVarsUnchanged

\* get_logger
get_logger ==
    /\ IF logger = None
       THEN /\ instances' = Construct(FALSE)
            /\ logger' = NewId
       ELSE UNCHANGED <<instances, logger>>
    /\ last' = [op |-> "get_logger", self |-> None, arg |-> None, ret |-> logger',
                raised |-> FALSE]
    /\ UNCHANGED <<RICH_AVAILABLE, terminal>>
    /\ ThreadVarsUnchanged

\* configure_logging passing no argument on: RLMLogger() is enabled by default
configure_logging_default(enabled) ==
    /\ instances' = Construct(TRUE)
    /\ logger' = NewId
    /\ last' = [op |-> "configure_logging", self |-> None, arg |-> enabled,
                ret |-> logger', raised |-> FALSE]
    /\ UNCHANGED <<RICH_AVAILABLE, terminal>>
    /\ ThreadVarsUnchanged

\* configure_logging setting the flag of the singleton it finds instead of replacing it
configure_logging_in_place(enabled) ==
    /\ IF logger = None
       THEN /\ instances' = Construct(enabled)
            /\ logger' = NewId
       ELSE /\ instances' = [instances EXCEPT ![logger].enabled = enabled]
            /\ logger' = logger
    /\ last' = [op |-> "configure_logging", self |-> None, arg |-> enabled,
                ret |-> logger', raised |-> FALSE]
    /\ UNCHANGED <<RICH_AVAILABLE, terminal>>
    /\ ThreadVarsUnchanged

\* configure_logging
configure_logging(enabled) ==
    /\ instances' = Construct(enabled)
    /\ logger' = NewId
    /\ last' = [op |-> "configure_logging", self |-> None, arg |-> enabled,
                ret |-> logger', raised |-> FALSE]
    /\ UNCHANGED <<RICH_AVAILABLE, terminal>>
    /\ ThreadVarsUnchanged

\* a caller constructing its own RLMLogger(enabled)
new_RLMLogger(enabled) ==
    /\ instances' = Construct(enabled)
    /\ last' = [op |-> "RLMLogger", self |-> None, arg |-> enabled, ret |-> NewId,
                raised |-> FALSE]
    /\ UNCHANGED <<RICH_AVAILABLE, logger, terminal>>
    /\ ThreadVarsUnchanged

-----------------------------------------------------------------------------
(* The arguments the callers pass.                                          *)

Letters == <<"a", "b", " ", "c", "\n", "d", "_", "e">>

\* a string of n characters, no two neighbours equal
Str(n) == [i \in 1..n |-> Letters[((i - 1) % Len(Letters)) + 1]]

WsCycle == <<" ", "\n", "\t", "\r", "\f">>

\* k whitespace characters
Pad(k) == [i \in 1..k |-> WsCycle[((i - 1) % Len(WsCycle)) + 1]]

\* a text of n characters with whitespace inside it and none at its two ends
Core(n) == [i \in 1..n |-> IF i = 1 \/ i = n THEN "x" ELSE Letters[((i - 1) % Len(Letters)) + 1]]

\* lengths at and around a limit
Around(limit) == (limit - 1)..(limit + MaxOver)

\* prompts and responses
Prompts == {Str(n) : n \in {0, 1} \cup Around(PromptLimit)}

\* stdout / stderr texts: around both stream limits, with whitespace around them
Streams ==
    {Pad(l) \o Core(n) \o Pad(r) :
        l \in 0..MaxPad, r \in 0..MaxPad,
        n \in {0, 1} \cup Around(StderrLimit) \cup Around(StdoutLimit)}

\* values of locals: representations at and around the cut, and failing ones
CleanValues ==
    <<ReprOk("int", Str(1)), ReprOk("str", Str(VarValueLimit)),
      ReprRaises("Broken", "Exception"), ReprOk("list", Str(VarValueLimit + MaxOver)),
      ReprOk("dict", Str(VarValueKeep)), ReprOk("str", Str(VarValueLimit - 1)),
      ReprOk("bytes", Str(VarValueLimit + MaxOver + 7))>>

InterruptedValues ==
    <<ReprOk("int", Str(1)), ReprRaises("Broken", "Exception"),
      ReprOk("list", Str(VarValueLimit + MaxOver)),
      ReprRaises("Slow", "BaseException"), ReprOk("str", Str(VarValueLimit))>>

ValuePools == <<CleanValues, InterruptedValues>>

\* names of user variables; the first ones resemble the names left out
UserNames ==
    <<<<"x">>, <<"x", "_">>, <<"o", "s", "x">>, <<"m", "a", "t", "h", "s">>,
      <<"C", "o", "n", "t", "e", "x", "t">>, <<"r">>, <<"v", "a">>, <<"v", "b">>,
      <<"v", "c">>, <<"v", "d">>, <<"v", "e">>, <<"v", "f">>, <<"v", "g">>,
      <<"v", "h">>, <<"v", "i">>, <<"v", "j">>>>

\* names the logger leaves out, in the groups the inputs mix in
Noise ==
    <<<<>>,
      <<<<"_">>, N_context, <<"_", "x">>>>,
      <<N_json, N_re, N_os>>,
      <<N_collections, N_math>>>>

ModuleValue == ReprOk("module", Str(9))

UserEntry(i, pool, shift) ==
    [name |-> UserNames[i],
     value |-> ValuePools[pool][((i + shift) % Len(ValuePools[pool])) + 1]]

\* a locals dict of k user variables with the names of `noise` between them
RECURSIVE MixLocals(_, _, _, _, _)
MixLocals(i, k, noise, pool, shift) ==
    IF i > k THEN [j \in 1..Len(noise) |-> [name |-> noise[j], value |-> ModuleValue]]
    ELSE (IF noise # <<>> THEN <<[name |-> noise[1], value |-> ModuleValue]>> ELSE <<>>)
         \o <<UserEntry(i, pool, shift)>>
         \o MixLocals(i + 1, k, IF noise # <<>> THEN Tail(noise) ELSE noise, pool, shift)

LocalsDicts ==
    {MixLocals(1, k, Noise[g], pool, shift) :
        k \in 0..(MaxVarRows + MaxExtraVars), g \in DOMAIN Noise,
        pool \in DOMAIN ValuePools, shift \in 0..2}

REPLResult(success, ms, stdout, stderr, locals) ==
    [success |-> success, execution_time |-> ms, stdout |-> stdout, stderr |-> stderr,
     locals |-> locals]

Hello == <<"h", "e", "l", "l", "o", "\n">>

\* stream texts without whitespace around them
BareStreams == {Core(n) : n \in {0, 1} \cup Around(StderrLimit) \cup Around(StdoutLimit)}

\* results: each field varied on its own, and the two streams together
Results ==
    {REPLResult(TRUE, 2, out, <<>>, <<>>) : out \in Streams}
    \cup {REPLResult(FALSE, 15, <<>>, err, <<>>) : err \in Streams}
    \cup {REPLResult(FALSE, 15, out, err, <<>>) : out \in BareStreams, err \in BareStreams}
    \cup {REPLResult(TRUE, 2, Hello, <<>>, locals) : locals \in LocalsDicts}

\* the few arguments of the lifecycle specification
FewPrompts == {Str(2), Str(PromptLimit + 1)}
FewCodes == {Str(5)}
FewResults ==
    {REPLResult(TRUE, 2, Hello, <<>>, MixLocals(1, 1, <<>>, 1, 0)),
     REPLResult(FALSE, 15, <<>>, Str(12), <<>>)}

-----------------------------------------------------------------------------
(* Spec: the life of the singleton and of the handles, one thread.          *)

IdleThreads == [t \in 1..NumThreads |-> "idle"]

Init ==
    /\ RICH_AVAILABLE \in BOOLEAN
    /\ instances = <<>>
    /\ logger = None
    /\ terminal = <<>>
    /\ last = [op |-> "import", self |-> None, arg |-> None, ret |-> None, raised |-> FALSE]
    /\ pc = IdleThreads
    /\ ret = [t \in 1..NumThreads |-> None]
    /\ tmp = [t \in 1..NumThreads |-> None]
    /\ configured = FALSE

\* room for one more instance, keeping one for a lazy get_logger
Room == Cardinality(DOMAIN instances) + (IF logger = None THEN 1 ELSE 0) < MaxInstances

\* the caller goes on logging through an enabled logger while the terminal holds
\* fewer than MaxTerminal items
Logging(self) == Len(terminal) < MaxTerminal \/ ~instances[self].enabled

Next ==
    \/ get_logger
    \/ \E enabled \in BOOLEAN : Room /\ configure_logging(enabled)
    \/ \E enabled \in BOOLEAN : Room /\ new_RLMLogger(enabled)
    \/ \E self \in DOMAIN instances, code \in FewCodes :
          Logging(self) /\ log_code_execution(self, code)
    \/ \E self \in DOMAIN instances, result \in FewResults :
          Logging(self) /\ log_result(self, result)
    \/ \E self \in DOMAIN instances, prompt \in FewPrompts :
          Logging(self) /\ log_llm_query(self, prompt)
    \/ \E self \in DOMAIN instances, response \in FewPrompts :
          Logging(self) /\ log_llm_response(self, response)

Spec == Init /\ [][Next]_vars

-----------------------------------------------------------------------------
(* SpecRender: one log_* call on the enabled singleton, in either mode, on  *)
(* a clear terminal, over the large sets of arguments.                      *)

InitRender ==
    /\ RICH_AVAILABLE \in BOOLEAN
    /\ instances = <<RLMLogger(TRUE)>>
    /\ logger = 1
    /\ terminal = <<>>
    /\ last = [op |-> "configure_logging", self |-> None, arg |-> TRUE, ret |-> 1,
               raised |-> FALSE]
    /\ pc = IdleThreads
    /\ ret = [t \in 1..NumThreads |-> None]
    /\ tmp = [t \in 1..NumThreads |-> None]
    /\ configured = FALSE

Fresh == terminal = <<>> /\ last.op = "configure_logging"

NextRender ==
    \/ \E code \in Prompts : Fresh /\ log_code_execution(logger, code)
    \/ \E result \in Results : Fresh /\ log_result(logger, result)
    \/ \E prompt \in Prompts : Fresh /\ log_llm_query(logger, prompt)
    \/ \E response \in Prompts : Fresh /\ log_llm_response(logger, response)

SpecRender == InitRender /\ [][NextRender]_vars

-----------------------------------------------------------------------------
(* SpecThreads: get_logger and configure_logging called from several        *)
(* threads.  No lock guards _logger; the interpreter switches threads       *)
(* between bytecodes, so a step is one read or one write of the global, or  *)
(* the construction of an instance, which touches no shared state.          *)

Threads == 1..NumThreads

\* get_logger constructing an instance without testing the global
gl_check_untested(t) ==
    /\ pc[t] = "idle"
    /\ pc' = [pc EXCEPT ![t] = "gl_new"]
    /\ UNCHANGED <<RICH_AVAILABLE, instances, logger, terminal, last, ret, tmp, configured>>

\* get_logger: `if _logger is None` reads the global
gl_check(t) ==
    /\ pc[t] = "idle"
    /\ pc' = [pc EXCEPT ![t] = IF logger = None THEN "gl_new" ELSE "gl_ret"]
    /\ UNCHANGED <<RICH_AVAILABLE, instances, logger, terminal, last, ret, tmp, configured>>

\* get_logger: RLMLogger(enabled=False) constructs the instance
gl_construct(t) ==
    /\ pc[t] = "gl_new"
    /\ instances' = Construct(FALSE)
    /\ tmp' = [tmp EXCEPT ![t] = NewId]
    /\ pc' = [pc EXCEPT ![t] = "gl_store"]
    /\ UNCHANGED <<RICH_AVAILABLE, logger, terminal, last, ret, configured>>

\* get_logger: `_logger = ...` writes the global
gl_store(t) ==
    /\ pc[t] = "gl_store"
    /\ logger' = tmp[t]
    /\ pc' = [pc EXCEPT ![t] = "gl_ret"]
    /\ UNCHANGED <<RICH_AVAILABLE, instances, terminal, last, ret, tmp, configured>>

\* get_logger: `return _logger` reads the global again
gl_return(t) ==
    /\ pc[t] = "gl_ret"
    /\ ret' = [ret EXCEPT ![t] = logger]
    /\ pc' = [pc EXCEPT ![t] = "idle"]
    /\ UNCHANGED <<RICH_AVAILABLE, instances, logger, terminal, last, tmp, configured>>

\* configure_logging: RLMLogger(enabled=enabled) constructs the instance
cl_construct(t, enabled) ==
    /\ pc[t] = "idle"
    /\ configured' = TRUE
    /\ instances' = Construct(enabled)
    /\ tmp' = [tmp EXCEPT ![t] = NewId]
    /\ pc' = [pc EXCEPT ![t] = "cl_store"]
    /\ UNCHANGED <<RICH_AVAILABLE, logger, terminal, last, ret>>

\* configure_logging: `_logger = ...` writes the global
cl_store(t) ==
    /\ pc[t] = "cl_store"
    /\ logger' = tmp[t]
    /\ pc' = [pc EXCEPT ![t] = "cl_ret"]
    /\ UNCHANGED <<RICH_AVAILABLE, instances, terminal, last, ret, tmp, configured>>

\* configure_logging: `return _logger` reads the global
cl_return(t) ==
    /\ pc[t] = "cl_ret"
    /\ ret' = [ret EXCEPT ![t] = logger]
    /\ pc' = [pc EXCEPT ![t] = "idle"]
    /\ UNCHANGED <<RICH_AVAILABLE, instances, logger, terminal, last, tmp, configured>>

\* room for one more configured instance beside those get_logger is about to make
RoomThreads ==
    Cardinality(DOMAIN instances) + Cardinality({t \in Threads : pc[t] = "gl_new"})
        < MaxInstances

NextThreads ==
    \/ \E t \in Threads : gl_check(t)
    \/ \E t \in Threads : gl_construct(t)
    \/ \E t \in Threads : gl_store(t)
    \/ \E t \in Threads : gl_return(t)
    \/ \E t \in Threads, enabled \in BOOLEAN : RoomThreads /\ cl_construct(t, enabled)
    \/ \E t \in Threads : cl_store(t)
    \/ \E t \in Threads : cl_return(t)

SpecThreads == Init /\ [][NextThreads]_vars

-----------------------------------------------------------------------------
(* Properties of the singleton and of the enabled flag (Spec).  Every call  *)
(* records itself in `last`, so last' names the call a step makes.          *)

\* C1: a log_code_execution, log_result, log_llm_query or log_llm_response call
\* on an instance whose enabled flag is false writes nothing to the terminal, in
\* the rich and in the plain mode, whatever its argument and whatever was called
\* before.
C1_DisabledWritesNothing ==
    [][(last'.op \in LogOps /\ ~instances[last'.self].enabled)
          => terminal' = terminal]_vars

\* a call on a disabled instance has been made after an enabled one wrote
C1_Witness ==
    /\ last.op \in LogOps
    /\ ~instances[last.self].enabled
    /\ terminal # <<>>

\* C2: get_logger returns the singleton; with a singleton present no call other
\* than configure_logging replaces it, so two get_logger calls with no
\* configure_logging between them return the same instance; with none present
\* get_logger constructs an instance that did not exist, with enabled = FALSE,
\* and stores it.
C2_GetLoggerSameInstance ==
    [][/\ (logger # None /\ last'.op # "configure_logging") => logger' = logger
       /\ last'.op = "get_logger" =>
            /\ last'.ret = logger'
            /\ logger # None => instances' = instances
            /\ logger = None =>
                 /\ last'.ret \notin DOMAIN instances
                 /\ last'.ret \in DOMAIN instances'
                 /\ instances'[last'.ret].enabled = FALSE]_vars

\* get_logger returned the singleton it created lazily, beside an enabled instance
C2_Witness ==
    /\ last.op = "get_logger"
    /\ last.ret = logger
    /\ instances[logger].enabled = FALSE
    /\ \E i \in DOMAIN instances : i < logger /\ instances[i].enabled

\* C3: configure_logging(e) constructs an instance that did not exist, installs
\* it as the singleton and returns it; its flag is e; a get_logger call that
\* follows returns that instance.
C3_ConfigureReplaces ==
    [][/\ last'.op = "configure_logging" =>
            /\ last'.ret \notin DOMAIN instances
            /\ last'.ret \in DOMAIN instances'
            /\ logger' = last'.ret
            /\ instances'[last'.ret].enabled = last'.arg
       /\ (last.op = "configure_logging" /\ last'.op = "get_logger") =>
            /\ last'.ret = last.ret
            /\ instances'[last'.ret].enabled = last.arg]_vars

\* configure_logging(FALSE) has replaced a singleton whose flag was TRUE
C3_Witness ==
    /\ last.op = "configure_logging"
    /\ last.arg = FALSE
    /\ logger = last.ret
    /\ last.ret > 1
    /\ instances[last.ret - 1].enabled = TRUE

\* C10: no call changes a field of an instance that exists or the import-time
\* mode; configure_logging makes the singleton an instance no earlier handle
\* refers to; a log_* call changes neither the instances nor the singleton, and
\* writes exactly when the instance it is called on is enabled, whether or not
\* that instance is still the singleton.
C10_InstancesNeverMutated ==
    [][/\ \A i \in DOMAIN instances :
            i \in DOMAIN instances' /\ instances'[i] = instances[i]
       /\ RICH_AVAILABLE' = RICH_AVAILABLE
       /\ last'.op = "configure_logging" => logger' \notin DOMAIN instances
       /\ last'.op \in LogOps =>
            /\ logger' = logger
            /\ instances' = instances
            /\ (terminal' # terminal) = instances[last'.self].enabled]_vars

\* an enabled handle obtained before configure_logging(FALSE) has written
C10_Witness ==
    /\ last.op \in LogOps
    /\ logger # None
    /\ last.self < logger
    /\ instances[last.self].enabled
    /\ ~instances[logger].enabled
    /\ terminal # <<>>

-----------------------------------------------------------------------------
(* Properties of what an enabled logger writes (SpecRender).                *)

\* the items of the terminal in the order they are shown: the content of a panel
\* and the rows of a table in the place of the panel and of the table
RECURSIVE Flat(_)
Flat(items) ==
    IF items = <<>> THEN <<>>
    ELSE LET h == Head(items)
         IN  (IF h.kind = "panel" THEN h.content
              ELSE IF h.kind = "table" THEN h.rows
              ELSE <<h>>) \o Flat(Tail(items))

IsText(item) == item.kind = "text"
IsVar(item) == item.kind = "var"
IsMore(item) == item.kind = "more"

Shown == Flat(terminal)

\* the places of a label among the shown items
PlacesOf(label) == {p \in 1..Len(Shown) : Shown[p] = Label(label)}

\* s without the whitespace at its two ends, stated without recursion
Stripped(s) ==
    IF \A i \in 1..Len(s) : s[i] \in {" ", "\t", "\n", "\r", "\f"} THEN <<>>
    ELSE LET first == CHOOSE i \in 1..Len(s) :
                          /\ s[i] \notin {" ", "\t", "\n", "\r", "\f"}
                          /\ \A k \in 1..(i - 1) : s[k] \in {" ", "\t", "\n", "\r", "\f"}
             final == CHOOSE j \in 1..Len(s) :
                          /\ s[j] \notin {" ", "\t", "\n", "\r", "\f"}
                          /\ \A k \in (j + 1)..Len(s) : s[k] \in {" ", "\t", "\n", "\r", "\f"}
         IN  SubSeq(s, first, final)

\* C4: log_llm_query and log_llm_response on an enabled logger show, in either
\* mode, one text: the argument itself when it has at most 500 characters, its
\* first 500 characters followed by "..." (503 characters) when it has more.
C4_LlmTextTruncatedAt500 ==
    last.op \in {"log_llm_query", "log_llm_response"} =>
        LET texts == SelectSeq(Shown, IsText)
        IN  /\ Len(texts) = 1
            /\ IF Len(last.arg) > 500
               THEN /\ texts[1].text = SubSeq(last.arg, 1, 500) \o <<".", ".", ".">>
                    /\ Len(texts[1].text) = 503
               ELSE texts[1].text = last.arg

\* a response of more than 500 characters has been shown in the plain mode
C4_Witness ==
    /\ last.op = "log_llm_response"
    /\ ~RICH_AVAILABLE
    /\ Len(last.arg) > 500
    /\ Len(SelectSeq(Shown, IsText)[1].text) = 503

\* the law of C5 for one stream: its raw text, its label, its limit
SectionLaw(raw, label, limit) ==
    LET stripped == Stripped(raw)
    IN  IF stripped = <<>> THEN PlacesOf(label) = {}
        ELSE /\ Cardinality(PlacesOf(label)) = 1
             /\ LET p == CHOOSE q \in PlacesOf(label) : TRUE
                    b == IF p < Len(Shown) /\ Shown[p + 1] = NL THEN p + 2 ELSE p + 1
                IN  /\ b <= Len(Shown)
                    /\ IsText(Shown[b])
                    /\ Shown[b].text =
                          IF Len(stripped) > limit
                          THEN SubSeq(stripped, 1, limit)
                               \o <<"\n", ".", ".", ".", " ", "(", "t", "r", "u", "n",
                                    "c", "a", "t", "e", "d", ")">>
                          ELSE stripped

\* C5: log_result on an enabled logger, in either mode: a stream whose stripped
\* text is empty has no section; otherwise its section ("Output:" for stdout,
\* limit 2000; "Errors:" for stderr, limit 1000) holds the stripped text, cut to
\* its first <limit> characters followed by "\n... (truncated)" when the stripped
\* text is longer than the limit.
C5_StreamSections ==
    last.op = "log_result" =>
        /\ SectionLaw(last.arg.stdout, "Output:", 2000)
        /\ SectionLaw(last.arg.stderr, "Errors:", 1000)

\* a stdout longer than 2000 characters whose stripped text has exactly 2000 has
\* been shown in the plain mode
C5_Witness ==
    /\ last.op = "log_result"
    /\ ~RICH_AVAILABLE
    /\ Len(last.arg.stdout) > 2000
    /\ Len(Stripped(last.arg.stdout)) = 2000
    /\ PlacesOf("Output:") # {}


\* a user variable as the specification defines it: an entry whose name neither
\* starts with "_" nor is one of the six names left out
ClaimedUserVar(entry) ==
    /\ ~(Len(entry.name) > 0 /\ entry.name[1] = "_")
    /\ entry.name \notin {N_context, N_json, N_re, N_os, N_collections, N_math}

\* the variable entries shown, in order
Entries == SelectSeq(Shown, IsVar)

\* the user variables the mode in use selects from the argument of log_result
Selected ==
    IF RICH_AVAILABLE THEN _get_user_vars(last.arg.locals)
    ELSE plain_user_vars(last.arg.locals)

Min(a, b) == IF a < b THEN a ELSE b

\* C6: in either mode no shown variable has a name that starts with "_" or is
\* one of context, json, re, os, collections, math, and every other key of
\* locals is a user variable: both modes select the entries of locals that
\* satisfy ClaimedUserVar, and show them when they are at most 10.
C6_ExcludedNamesNeverShown ==
    last.op = "log_result" =>
        /\ \A i \in 1..Len(Entries) : ClaimedUserVar(Entries[i])
        /\ LET users == SelectSeq(last.arg.locals, ClaimedUserVar)
           IN  (~last.raised /\ Len(users) <= 10) =>
                  /\ Len(Selected) = Len(users)
                  /\ Len(Entries) = Len(users)
                  /\ \A i \in 1..Len(users) : Entries[i].name = users[i].name

\* C7: with n user variables selected, log_result shows exactly min(n, 10)
\* entries, the first ones in insertion order; "Variables:" is absent when n = 0;
\* the line "... and {n-10} more variables" is there exactly when n > 10, states
\* n - 10 and comes after the entries.
C7_VariableListAndSummary ==
    (last.op = "log_result" /\ ~last.raised) =>
        LET n == Len(Selected)
            mores == {p \in 1..Len(Shown) : IsMore(Shown[p])}
            places == {p \in 1..Len(Shown) : IsVar(Shown[p])}
        IN  /\ Len(Entries) = Min(n, 10)
            /\ \A i \in 1..Len(Entries) : Entries[i].name = Selected[i].name
            /\ (n = 0) = (PlacesOf("Variables:") = {})
            /\ (n > 10) = (mores # {})
            /\ \A p \in mores :
                  /\ Shown[p].count = n - 10
                  /\ \A q \in places : q < p

\* the formatted value the specification gives for a value
ClaimedFormat(value) ==
    IF value.repr # "returns"
    THEN <<"<", "u", "n", "a", "b", "l", "e", " ", "t", "o", " ", "r", "e", "p", "r", ">">>
    ELSE IF Len(value.text) <= 60 THEN value.text
    ELSE SubSeq(value.text, 1, 57) \o <<".", ".", ".">>

\* every variable selected (up to 10) is shown with the specified formatted value,
\* of at most 60 characters, and the output is closed: the plain mode ends with
\* its banner, the rich mode prints the table
AllEntriesFormatted ==
    /\ ~last.raised
    /\ Len(Entries) = Min(Len(Selected), 10)
    /\ \A i \in 1..Len(Entries) :
          /\ Entries[i].name = Selected[i].name
          /\ Entries[i].value = ClaimedFormat(Selected[i].value)
          /\ Len(Entries[i].value) <= 60
    /\ terminal # <<>>
    /\ IF RICH_AVAILABLE
       THEN Selected # <<>> => terminal[Len(terminal)].kind = "table"
       ELSE terminal[Len(terminal)] = Banner(FALSE)

\* C8 as stated: whatever repr(value) raises, log_result does not raise and
\* shows "<unable to repr>" for that value.
C8_NeverPropagates ==
    last.op = "log_result" => AllEntriesFormatted

\* the values log_result formats: those of the first 10 selected variables
Formatted == first_rows(Selected)

\* C8, amended: when every repr(value) that raises raises an exception derived
\* from Exception, log_result does not raise and shows every entry with the
\* specified formatted value; an exception that is not derived from Exception
\* leaves log_result.
C8_ExceptionsCaught ==
    last.op = "log_result" =>
        IF \E i \in 1..Len(Formatted) : Formatted[i].value.repr = "BaseException"
        THEN last.raised
        ELSE AllEntriesFormatted

\* a result has been shown, in the rich mode, with a value whose repr raised and
\* with a value of more than 60 characters cut to 60
C8_Witness ==
    /\ last.op = "log_result"
    /\ RICH_AVAILABLE
    /\ ~last.raised
    /\ \E i \in 1..Len(Entries) :
          Selected[i].value.repr = "Exception" /\ Entries[i].value = UnableToRepr
    /\ \E i \in 1..Len(Entries) :
          Len(Selected[i].value.text) > 60 /\ Len(Entries[i].value) = 60

-----------------------------------------------------------------------------
(* Properties of the accessors under threads (SpecThreads).                 *)

\* the instances the calls have returned
Returned == {ret[t] : t \in Threads} \ {None}

\* C9 as stated: while no thread has called configure_logging, the get_logger
\* calls of all threads create one instance at most and all return that one.
C9_OneInstanceUnderThreads ==
    ~configured =>
        /\ Cardinality(DOMAIN instances) <= 1
        /\ Cardinality(Returned) <= 1

\* C9, amended: the global holds nothing or one constructed instance; while no
\* thread has called configure_logging, every get_logger call returns a
\* constructed instance whose enabled flag is false, and the racing calls
\* construct at most one instance per thread (not at most one), so they may
\* return different instances.
C9_RacingGetLogger ==
    /\ logger \in {None} \cup DOMAIN instances
    /\ ~configured =>
          /\ Cardinality(DOMAIN instances) <= NumThreads
          /\ \A t \in Threads :
                ret[t] # None =>
                    /\ ret[t] \in DOMAIN instances
                    /\ instances[ret[t]].enabled = FALSE

\* two threads have raced through get_logger and hold different instances
C9_Witness ==
    /\ ~configured
    /\ Cardinality(DOMAIN instances) = 2
    /\ ret[1] # None
    /\ ret[2] # None
    /\ ret[1] # ret[2]

====
